---- MODULE Spec2Model ----
(***************************************************************************)
(* labeled4nothing.py: unreferenced labels and unreferenced numbered       *)
(* equations of a LaTeX file.                                              *)
(*                                                                         *)
(* Text is a sequence of tokens.  A token is a piece of text that the      *)
(* program's regular expressions never look inside: a command name         *)
(* ("\\label", "\\ref", "\\begin", ...), a brace, a star, a comma, a blank,  *)
(* a newline, an environment name or a one-letter name.  No token is a     *)
(* prefix of another, so string order is the lexicographic order of token  *)
(* sequences.  The regular expressions are modelled on token sequences as  *)
(* Python's re module evaluates them on the text.                          *)
(***************************************************************************)
EXTENDS Integers, Sequences, FiniteSets, TLC

\* Longest document, in lines, that Init draws.
MaxLines == 3

\* Python's None for a block without a label; a matched label is never
\* empty, because the group ([^}]+) needs at least one character.
None == <<>>

\* numbered_envs, in the order the for loop tries them.
numbered_envs ==
  <<"equation", "align", "gather", "multline", "flalign", "alignat", "eqnarray">>

\* The command names \\(?:eq|C|c|auto|name|page|)?[Rr]ef matches.
RefCommands ==
  {"\\ref", "\\Ref", "\\eqref", "\\eqRef", "\\Cref", "\\CRef", "\\cref",
   "\\cRef", "\\autoref", "\\autoRef", "\\nameref", "\\nameRef",
   "\\pageref", "\\pageRef"}

\* The characters str.strip() removes, as tokens.
Whitespace == {" ", "\n"}

\* The tokens of the documents, in Python's string order (code points).
TokenOrder ==
  <<"\n", " ", "*", ",", "U", "\\begin", "\\end", "\\eqref", "\\label",
    "\\ref", "align", "equation", "u", "v", "x", "{", "}">>

TokRank(t) == CHOOSE k \in 1..Len(TokenOrder) : TokenOrder[k] = t

Range(s) == {s[k] : k \in 1..Len(s)}

\* Position of the first "}" at or after p, 0 when there is none.
RECURSIVE FirstClose(_, _)
FirstClose(s, p) ==
  IF p > Len(s) THEN 0
  ELSE IF s[p] = "}" THEN p ELSE FirstClose(s, p + 1)

\* \{([^}]+)\} with the "{" at position open: the position of the closing
\* "}", 0 when the pattern does not match there.
BraceGroupEnd(s, open) ==
  IF open > Len(s) \/ s[open] # "{" THEN 0
  ELSE LET q == FirstClose(s, open + 1)
       IN IF q > open + 1 THEN q ELSE 0

\* label_pattern \\label\{([^}]+)\} at position p: the "{" position, or 0.
LabelOpenAt(s, p) ==
  IF p + 1 <= Len(s) /\ s[p] = "\\label" /\ s[p + 1] = "{" THEN p + 1 ELSE 0

\* ref_pattern \\(?:eq|C|c|auto|name|page|)?[Rr]ef\*?\{ at position p: the
\* "{" position, or 0.
RefOpenAt(s, p) ==
  IF p > Len(s) \/ s[p] \notin RefCommands THEN 0
  ELSE IF p + 1 <= Len(s) /\ s[p + 1] = "{" THEN p + 1
  ELSE IF p + 2 <= Len(s) /\ s[p + 1] = "*" /\ s[p + 2] = "{" THEN p + 2
  ELSE 0

\* re.findall(label_pattern, s) from position p on: the groups of the
\* non-overlapping matches, leftmost first.
RECURSIVE FindAllLabels(_, _)
FindAllLabels(s, p) ==
  IF p > Len(s) THEN <<>>
  ELSE LET open == LabelOpenAt(s, p)
           q == IF open = 0 THEN 0 ELSE BraceGroupEnd(s, open)
       IN IF q = 0 THEN FindAllLabels(s, p + 1)
          ELSE <<SubSeq(s, open + 1, q - 1)>> \o FindAllLabels(s, q + 1)

\* re.findall(ref_pattern, s) from position p on.
RECURSIVE FindAllRefs(_, _)
FindAllRefs(s, p) ==
  IF p > Len(s) THEN <<>>
  ELSE LET open == RefOpenAt(s, p)
           q == IF open = 0 THEN 0 ELSE BraceGroupEnd(s, open)
       IN IF q = 0 THEN FindAllRefs(s, p + 1)
          ELSE <<SubSeq(s, open + 1, q - 1)>> \o FindAllRefs(s, q + 1)

\* re.search(r'\\label\{([^}]+)\}', s) from position p on: group(1) of the
\* leftmost match, None when there is no match.
RECURSIVE SearchLabel(_, _)
SearchLabel(s, p) ==
  IF p > Len(s) THEN None
  ELSE LET open == LabelOpenAt(s, p)
           q == IF open = 0 THEN 0 ELSE BraceGroupEnd(s, open)
       IN IF q = 0 THEN SearchLabel(s, p + 1) ELSE SubSeq(s, open + 1, q - 1)

\* Variant: the marker with an optional star after the name.
SearchMarkerAnyStar(cmd, env, line) ==
  \E p \in 1..Len(line) :
    \/ /\ p + 3 <= Len(line)
       /\ SubSeq(line, p, p + 3) = <<cmd, "{", env, "}">>
    \/ /\ p + 4 <= Len(line)
       /\ SubSeq(line, p, p + 4) = <<cmd, "{", env, "*", "}">>

\* re.search of the literal marker cmd{env} in line.
SearchMarker(cmd, env, line) ==
  \E p \in 1..Len(line) :
    /\ p + 3 <= Len(line)
    /\ SubSeq(line, p, p + 3) = <<cmd, "{", env, "}">>

\* begin_pattern = r'\\begin\{' + env + r'\}'
BeginPattern(env, line) == SearchMarker("\\begin", env, line)

\* end_pattern = r'\\end\{' + env + r'\}'
EndPattern(env, line) == SearchMarker("\\end", env, line)

\* s.split(sep): the pieces between the separators, at least one piece.
RECURSIVE SplitOn(_, _, _)
SplitOn(s, sep, piece) ==
  IF s = <<>> THEN <<piece>>
  ELSE IF Head(s) = sep THEN <<piece>> \o SplitOn(Tail(s), sep, <<>>)
  ELSE SplitOn(Tail(s), sep, Append(piece, Head(s)))

Split(s, sep) == SplitOn(s, sep, <<>>)

\* '\n'.join(ls)
RECURSIVE Join(_)
Join(ls) ==
  IF ls = <<>> THEN <<>>
  ELSE IF Len(ls) = 1 THEN ls[1]
  ELSE ls[1] \o <<"\n">> \o Join(Tail(ls))

\* s.strip()
RECURSIVE LStrip(_)
LStrip(s) ==
  IF s # <<>> /\ Head(s) \in Whitespace THEN LStrip(Tail(s)) ELSE s

RECURSIVE RStrip(_)
RStrip(s) ==
  IF s # <<>> /\ s[Len(s)] \in Whitespace
  THEN RStrip(SubSeq(s, 1, Len(s) - 1)) ELSE s

Strip(s) == RStrip(LStrip(s))

\* Python's str order: a < b.
RECURSIVE StrLess(_, _)
StrLess(a, b) ==
  IF b = <<>> THEN FALSE
  ELSE IF a = <<>> THEN TRUE
  ELSE IF Head(a) = Head(b) THEN StrLess(Tail(a), Tail(b))
  ELSE TokRank(Head(a)) < TokRank(Head(b))

\* sorted(S) of a set of strings.
RECURSIVE Sorted(_)
Sorted(S) ==
  IF S = {} THEN <<>>
  ELSE LET m == CHOOSE x \in S : \A y \in S \ {x} : StrLess(x, y)
       IN <<m>> \o Sorted(S \ {m})

\* extract_labels(content)
extract_labels(content) == Range(FindAllLabels(content, 1))

\* Variant: the pieces are not stripped.
extract_references_unstripped(content) ==
  UNION {Range(Split(m, ",")) : m \in Range(FindAllRefs(content, 1))}

\* extract_references(content): every match is split at the commas and
\* every piece is stripped.
extract_references(content) ==
  UNION {{Strip(ref) : ref \in Range(Split(m, ","))} :
         m \in Range(FindAllRefs(content, 1))}

\* The lines 98-113 loop from line index j on (indices count from 0, as in
\* the program): found tells whether a line matching end_pattern was
\* reached, j is that line's index.
RECURSIVE CollectBlock(_, _, _, _, _)
CollectBlock(lines, env, j, equation_lines, label) ==
  IF j >= Len(lines)
  THEN [found |-> FALSE, j |-> j, equation_lines |-> equation_lines,
        label |-> label]
  ELSE LET collected == Append(equation_lines, lines[j + 1])
           label_match == SearchLabel(lines[j + 1], 1)
           new_label == IF label_match # None THEN label_match ELSE label
       IN IF EndPattern(env, lines[j + 1])
          THEN [found |-> TRUE, j |-> j, equation_lines |-> collected,
                label |-> new_label]
          ELSE CollectBlock(lines, env, j + 1, collected, new_label)

\* The for loop of lines 87-91: the index in numbered_envs of the first
\* environment whose begin_pattern the line matches, 0 when none does.
MatchedEnv(line) ==
  IF \E k \in 1..Len(numbered_envs) : BeginPattern(numbered_envs[k], line)
  THEN CHOOSE k \in 1..Len(numbered_envs) :
         /\ BeginPattern(numbered_envs[k], line)
         /\ \A m \in 1..(k - 1) : ~BeginPattern(numbered_envs[m], line)
  ELSE 0

\* Variant: an unterminated environment leaves the index where it is.
ScanStepNoAdvance(lines, i, equations) ==
  LET k == MatchedEnv(lines[i + 1])
      r == CollectBlock(lines, numbered_envs[k], i, <<>>, None)
  IN IF k = 0 THEN [i |-> i + 1, equations |-> equations]
     ELSE IF r.found
     THEN [i |-> r.j + 1,
           equations |-> Append(equations,
                                <<i + 1, Strip(Join(r.equation_lines)), r.label>>)]
     ELSE [i |-> i, equations |-> equations]

\* Variant: after a block the scan goes on at the line after its first.
ScanStepRescan(lines, i, equations) ==
  LET k == MatchedEnv(lines[i + 1])
      r == CollectBlock(lines, numbered_envs[k], i, <<>>, None)
  IN IF k = 0 THEN [i |-> i + 1, equations |-> equations]
     ELSE IF r.found
     THEN [i |-> i + 1,
           equations |-> Append(equations,
                                <<i + 1, Strip(Join(r.equation_lines)), r.label>>)]
     ELSE [i |-> i + 1, equations |-> equations]

\* Variant: an unterminated environment ends the scan.
ScanStepStopAtUnterminated(lines, i, equations) ==
  LET k == MatchedEnv(lines[i + 1])
      r == CollectBlock(lines, numbered_envs[k], i, <<>>, None)
  IN IF k = 0 THEN [i |-> i + 1, equations |-> equations]
     ELSE IF r.found
     THEN [i |-> r.j + 1,
           equations |-> Append(equations,
                                <<i + 1, Strip(Join(r.equation_lines)), r.label>>)]
     ELSE [i |-> r.j, equations |-> equations]

\* One iteration of the outer while loop (lines 83-116).
ScanStep(lines, i, equations) ==
  LET k == MatchedEnv(lines[i + 1])
      r == CollectBlock(lines, numbered_envs[k], i, <<>>, None)
  IN IF k = 0 THEN [i |-> i + 1, equations |-> equations]
     ELSE IF r.found
     THEN [i |-> r.j + 1,
           equations |-> Append(equations,
                                <<i + 1, Strip(Join(r.equation_lines)), r.label>>)]
     ELSE [i |-> i + 1, equations |-> equations]

\* find_unreferenced_labels, after the read (lines 136-142).
find_unreferenced_labels(content) ==
  Sorted(extract_labels(content) \ extract_references(content))

\* The loop of lines 166-172 over the blocks from position k on.
\* Variant: a block without a label is left out.
RECURSIVE FilterUnreferencedLabelled(_, _, _)
FilterUnreferencedLabelled(equations, references, k) ==
  IF k > Len(equations) THEN <<>>
  ELSE LET eq == equations[k]
           rest == FilterUnreferencedLabelled(equations, references, k + 1)
       IN IF eq[3] # None /\ eq[3] \notin references
          THEN <<<<eq[1], eq[2]>>>> \o rest ELSE rest

RECURSIVE FilterUnreferenced(_, _, _)
FilterUnreferenced(equations, references, k) ==
  IF k > Len(equations) THEN <<>>
  ELSE LET eq == equations[k]
           rest == FilterUnreferenced(equations, references, k + 1)
       IN IF eq[3] = None \/ eq[3] \notin references
          THEN <<<<eq[1], eq[2]>>>> \o rest ELSE rest

\* Path(p).with_suffix(suffix).  A path is its final component as tokens:
\* the stem, then the dot-suffixes; the last one is replaced, or the
\* suffix appended when there is none.
with_suffix(path, suffix) ==
  IF Len(path) > 1 THEN SubSeq(path, 1, Len(path) - 1) \o <<suffix>>
  ELSE path \o <<suffix>>

\* str.lower() of a suffix token.
Lower(t) ==
  IF t \in {".TEX", ".Tex"} THEN ".tex"
  ELSE IF t = ".TXT" THEN ".txt" ELSE t

\* tex_file_path.lower().endswith('.tex'); a stem is a single letter.
EndsWithTex(path) == Len(path) > 1 /\ Lower(path[Len(path)]) = ".tex"

\* "=" * 80 and "-" * 80
Rule(c) ==
  IF c = "="
  THEN "================================================================================"
  ELSE "--------------------------------------------------------------------------------"

\* The label lines of the report (lines 214-215).
RECURSIVE LabelLines(_)
LabelLines(labels) ==
  IF labels = <<>> THEN <<>>
  ELSE <<"  ">> \o Head(labels) \o <<"\n">> \o LabelLines(Tail(labels))

\* The equation entries of the report (lines 227-231), from entry idx on.
RECURSIVE EquationLines(_, _)
EquationLines(eqs, idx) ==
  IF idx > Len(eqs) THEN <<>>
  ELSE <<"Equation #", ToString(idx), " at line ", ToString(eqs[idx][1]),
         ":\n", Rule("-"), "\n">>
       \o eqs[idx][2] \o <<"\n", Rule("-"), "\n\n">>
       \o EquationLines(eqs, idx + 1)

\* What lines 207-234 write to the report file.
Report(labels, eqs) ==
  <<Rule("="), "\n", "UNREFERENCED LABELS\n", Rule("="), "\n\n">>
  \o (IF labels # <<>>
      THEN LabelLines(labels)
           \o <<"\n", "Total: ", ToString(Len(labels)),
                " unreferenced label(s)\n">>
      ELSE <<"No unreferenced labels found.\n">>)
  \o <<"\n", Rule("="), "\n", "UNREFERENCED NUMBERED EQUATIONS\n", Rule("="),
       "\n\n">>
  \o (IF eqs # <<>>
      THEN EquationLines(eqs, 1)
           \o <<"Total: ", ToString(Len(eqs)), " unreferenced equation(s)\n">>
      ELSE <<"No unreferenced equations found.\n">>)

\* The console summary of lines 237-251, one entry per printed line.
Summary(path, out, labels, eqs) ==
  << <<"Processed: ">> \o path, <<"Output written to: ">> \o out,
     <<"\nSummary:">>,
     <<"  - ", ToString(Len(labels)), " unreferenced label(s)">>,
     <<"  - ", ToString(Len(eqs)), " unreferenced equation(s)">> >>
  \o (IF labels # <<>>
      THEN <<<<"\nUnreferenced labels:">>>>
           \o [k \in 1..Len(labels) |-> <<"  - ">> \o labels[k]]
      ELSE <<>>)
  \o (IF eqs # <<>>
      THEN <<<<"\nUnreferenced equations at lines:">>>>
           \o [k \in 1..Len(eqs) |-> <<"  - Line ", ToString(eqs[k][1])>>]
      ELSE <<>>)

UsageMessage == <<"Usage: python labeled4nothing.py <input.tex>">>
NotFoundMessage(path) == <<"Error: File '">> \o path \o <<"' not found.">>
WarningMessage == <<"Warning: Input file does not have a .tex extension.">>
\* The text of the exception follows in the program's message.
ErrorMessage == <<"Error processing file: ">>

----------------------------------------------------------------------------
\* The file system: what each path holds.
Absent == [kind |-> "absent", data |-> <<>>]
Directory == [kind |-> "dir", data |-> <<>>]
Binary == [kind |-> "binary", data |-> <<>>]    \* bytes that are not UTF-8
Text(content) == [kind |-> "text", data |-> content]

\* open(path, 'r', encoding='utf-8') and f.read() succeed.
Readable(entry) == entry.kind = "text"

\* The lines documents are made of.
LineVocab ==
  { <<"\\begin", "{", "equation", "}">>,
    <<"\\end", "{", "equation", "}">>,
    <<"\\begin", "{", "align", "*", "}">>,
    <<"\\end", "{", "align", "*", "}">>,
    <<"\\begin", "{", "align", "}">>,
    <<"\\end", "{", "align", "}">>,
    <<"\\label", "{", "u", "}">>,
    <<"\\label", "{", "v", "}", "\\end", "{", "equation", "}">>,
    <<"\\begin", "{", "equation", "}", "\\label", "{", "u", "}", "\\end", "{",
      "equation", "}">>,
    <<"\\label", "{", "x">>,
    <<"\\label", "{", " ", "u", "}">>,
    <<"\\ref", "{", "u", "}">>,
    <<"\\ref", "{", "U", "}">>,
    <<"\\eqref", "*", "{", "v", ",", " ", "u", "}">> }

Docs == {Join(ls) : ls \in UNION {[1..n -> LineVocab] : n \in 0..MaxLines}}

\* The lines that decide how the scan moves: the markers of two numbered
\* environments, a starred marker, and a block on one line.
ScanVocab ==
  { <<"\\begin", "{", "equation", "}">>,
    <<"\\end", "{", "equation", "}">>,
    <<"\\begin", "{", "align", "}">>,
    <<"\\end", "{", "align", "}">>,
    <<"\\begin", "{", "align", "*", "}">>,
    <<"\\begin", "{", "equation", "}", "\\label", "{", "u", "}", "\\end", "{",
      "equation", "}">> }

ScanDocs == {Join(ls) : ls \in UNION {[1..n -> ScanVocab] : n \in 0..MaxLines}}

SampleDoc ==
  <<"\\begin", "{", "equation", "}", "\\label", "{", "u", "}", "\\end", "{",
    "equation", "}", "\n", "\\label", "{", "v", "}">>

OtherDoc == <<"\\label", "{", "x", "}">>

Paths == {<<"n">>, <<"n", ".tex">>, <<"n", ".TEX">>, <<"n", ".txt">>}

Program == <<"labeled4nothing.py">>

VARIABLES
  argv,                     \* sys.argv
  fs,                       \* the file system
  pc,                       \* where main is
  exit_status,              \* -1 while running
  stdout,                   \* the lines printed
  tex_file_path,
  unreferenced_labels,
  content,                  \* content of find_unreferenced_equations
  lines, i, equations,      \* extract_numbered_equations
  unreferenced_equations,
  output_file_path

vars ==
  <<argv, fs, pc, exit_status, stdout, tex_file_path, unreferenced_labels,
    content, lines, i, equations, unreferenced_equations, output_file_path>>

scanVars == <<content, lines, i, equations>>

\* main is started on a path: on <<"n", ".tex">> holding any document of D,
\* or with any argument count on any path, the path and the report's path
\* holding a file, a directory or nothing.
InitWith(D) ==
  /\ \E target \in Paths :
       \/ /\ target = <<"n", ".tex">>
          /\ argv = Program \o <<target>>
          /\ \E d \in D : fs = [p \in Paths |-> IF p = target THEN Text(d)
                                                 ELSE Absent]
       \/ /\ argv \in {Program, Program \o <<target>>,
                       Program \o <<target, target>>}
          /\ \E e_in \in {Absent, Directory, Binary, Text(SampleDoc)},
                e_out \in {Absent, Directory, Text(OtherDoc)} :
               fs = [p \in Paths |->
                       IF p = target THEN e_in
                       ELSE IF p = with_suffix(target, ".txt") THEN e_out
                       ELSE Absent]
  /\ pc = "args"
  /\ exit_status = -1
  /\ stdout = <<>>
  /\ tex_file_path = <<>>
  /\ unreferenced_labels = <<>>
  /\ content = <<>>
  /\ lines = <<>>
  /\ i = 0
  /\ equations = <<>>
  /\ unreferenced_equations = <<>>
  /\ output_file_path = <<>>

Init == InitWith(Docs)

\* The same, the documents made of the lines that open and close
\* environments.
ScanInit == InitWith(ScanDocs)

Exit(status, message) ==
  /\ stdout' = Append(stdout, message)
  /\ exit_status' = status
  /\ pc' = "exited"

\* Lines 179-183.
CheckArgs ==
  /\ pc = "args"
  /\ IF Len(argv) # 2
     THEN Exit(1, UsageMessage) /\ UNCHANGED tex_file_path
     ELSE /\ tex_file_path' = argv[2]
          /\ pc' = "exists"
          /\ UNCHANGED <<exit_status, stdout>>
  /\ UNCHANGED <<argv, fs, unreferenced_labels, scanVars,
                 unreferenced_equations, output_file_path>>

\* Lines 186-188.
CheckExists ==
  /\ pc = "exists"
  /\ IF fs[tex_file_path].kind = "absent"
     THEN Exit(1, NotFoundMessage(tex_file_path))
     ELSE pc' = "extension" /\ UNCHANGED <<exit_status, stdout>>
  /\ UNCHANGED <<argv, fs, tex_file_path, unreferenced_labels, scanVars,
                 unreferenced_equations, output_file_path>>

\* Lines 191-192.
CheckExtension ==
  /\ pc = "extension"
  /\ stdout' = IF EndsWithTex(tex_file_path) THEN stdout
               ELSE Append(stdout, WarningMessage)
  /\ pc' = "labels"
  /\ UNCHANGED <<argv, fs, exit_status, tex_file_path, unreferenced_labels,
                 scanVars, unreferenced_equations, output_file_path>>

\* Variant: the except clause prints the error and does not exit.
FindUnreferencedLabelsNoExit ==
  /\ pc = "labels"
  /\ IF Readable(fs[tex_file_path])
     THEN /\ unreferenced_labels' =
               find_unreferenced_labels(fs[tex_file_path].data)
          /\ pc' = "equations"
          /\ UNCHANGED stdout
     ELSE /\ stdout' = Append(stdout, ErrorMessage)
          /\ pc' = "write"
          /\ UNCHANGED unreferenced_labels
  /\ UNCHANGED <<argv, fs, exit_status, tex_file_path, scanVars,
                 unreferenced_equations, output_file_path>>

\* Line 196, find_unreferenced_labels (lines 132-142); an exception of the
\* read is caught at lines 198-200.
FindUnreferencedLabels ==
  /\ pc = "labels"
  /\ IF Readable(fs[tex_file_path])
     THEN /\ unreferenced_labels' =
               find_unreferenced_labels(fs[tex_file_path].data)
          /\ pc' = "equations"
          /\ UNCHANGED <<exit_status, stdout>>
     ELSE Exit(1, ErrorMessage) /\ UNCHANGED unreferenced_labels
  /\ UNCHANGED <<argv, fs, tex_file_path, scanVars, unreferenced_equations,
                 output_file_path>>

\* Line 197, find_unreferenced_equations up to the start of the scan
\* (lines 156-157, 73-82).
ReadForEquations ==
  /\ pc = "equations"
  /\ IF Readable(fs[tex_file_path])
     THEN /\ content' = fs[tex_file_path].data
          /\ lines' = Split(fs[tex_file_path].data, "\n")
          /\ i' = 0
          /\ equations' = <<>>
          /\ pc' = "scan"
          /\ UNCHANGED <<exit_status, stdout>>
     ELSE Exit(1, ErrorMessage) /\ UNCHANGED scanVars
  /\ UNCHANGED <<argv, fs, tex_file_path, unreferenced_labels,
                 unreferenced_equations, output_file_path>>

\* One iteration of the while loop of extract_numbered_equations.
ScanLine ==
  /\ pc = "scan"
  /\ i < Len(lines)
  /\ LET next == ScanStep(lines, i, equations)
     IN i' = next.i /\ equations' = next.equations
  /\ UNCHANGED <<argv, fs, pc, exit_status, stdout, tex_file_path,
                 unreferenced_labels, content, lines, unreferenced_equations,
                 output_file_path>>

\* The loop ends; lines 118, 163-174.
FilterEquations ==
  /\ pc = "scan"
  /\ i >= Len(lines)
  /\ unreferenced_equations' =
       FilterUnreferenced(equations, extract_references(content), 1)
  /\ pc' = "write"
  /\ UNCHANGED <<argv, fs, exit_status, stdout, tex_file_path,
                 unreferenced_labels, scanVars, output_file_path>>

\* Lines 203-251.  Opening a directory for writing raises, nothing catches
\* it, and the interpreter exits with status 1.
WriteReport ==
  /\ pc = "write"
  /\ LET out == with_suffix(tex_file_path, ".txt")
     IN /\ output_file_path' = out
        /\ IF fs[out].kind = "dir"
           THEN /\ exit_status' = 1
                /\ UNCHANGED <<fs, stdout>>
           ELSE /\ fs' = [fs EXCEPT ![out] =
                            Text(Report(unreferenced_labels,
                                        unreferenced_equations))]
                /\ stdout' = stdout \o Summary(tex_file_path, out,
                                               unreferenced_labels,
                                               unreferenced_equations)
                /\ exit_status' = 0
  /\ pc' = "exited"
  /\ UNCHANGED <<argv, tex_file_path, unreferenced_labels, scanVars,
                 unreferenced_equations>>

\* Another process rewrites or removes the input file while main runs.
ExternalModify ==
  /\ pc \in {"exists", "extension", "labels", "equations", "scan", "write"}
  /\ \E e \in {Text(OtherDoc), Absent} :
       /\ fs[tex_file_path] # e
       /\ fs' = [fs EXCEPT ![tex_file_path] = e]
  /\ UNCHANGED <<argv, pc, exit_status, stdout, tex_file_path,
                 unreferenced_labels, scanVars, unreferenced_equations,
                 output_file_path>>

Next ==
  \/ CheckArgs
  \/ CheckExists
  \/ CheckExtension
  \/ FindUnreferencedLabels
  \/ ReadForEquations
  \/ ScanLine
  \/ FilterEquations
  \/ WriteReport

NextEnv == Next \/ ExternalModify

\* main alone.
Spec == Init /\ [][Next]_vars

\* The scan is not suspended: the interpreter executes the next iteration
\* of the loop, and the statements after it.
FairSpec ==
  ScanInit /\ [][Next]_vars /\ WF_vars(ScanLine) /\ WF_vars(FilterEquations)

\* main beside a process that changes the input file.
SpecEnv == Init /\ [][NextEnv]_vars

----------------------------------------------------------------------------
\* What the properties below read off a state.

\* The text of the input file.
InputText == fs[tex_file_path].data

\* The last line (counted from 1) of a recorded block: its text holds one
\* newline per line after the first.
BlockEnd(eq) == eq[1] + Cardinality({p \in 1..Len(eq[2]) : eq[2][p] = "\n"})

\* piece, with the whitespace at its two ends removed, is name.
Trims(piece, name) ==
  \E a \in 0..Len(piece), b \in 0..Len(piece) :
    /\ a <= b
    /\ name = SubSeq(piece, a + 1, b)
    /\ \A k \in 1..a : piece[k] \in Whitespace
    /\ \A k \in (b + 1)..Len(piece) : piece[k] \in Whitespace
    /\ name # <<>> => name[1] \notin Whitespace /\ name[Len(name)] \notin Whitespace
    /\ name = <<>> => a = Len(piece)

\* Some reference command of doc has name among the comma-separated pieces
\* of its argument, once the piece is trimmed.
ReferenceNames(doc, name) ==
  \E m \in Range(FindAllRefs(doc, 1)) :
    \E piece \in Range(Split(m, ",")) : Trims(piece, name)

\* The same, the pieces taken as they are written.
ReferenceNamesVerbatim(doc, name) ==
  \E m \in Range(FindAllRefs(doc, 1)) : name \in Range(Split(m, ","))

\* line holds the marker cmd{env}, nothing between the name and the brace.
ExactMarker(cmd, env, line) ==
  \E p \in 1..Len(line) :
    /\ p + 3 <= Len(line)
    /\ line[p] = cmd /\ line[p + 1] = "{" /\ line[p + 2] = env
    /\ line[p + 3] = "}"

StarredMarker(cmd, line) ==
  \E e \in Range(numbered_envs) : line = <<cmd, "{", e, "*", "}">>

\* Line k (from 1) opens an environment that a line at or after k closes;
\* the environment is the first of numbered_envs the line opens.
Opens(ls, k) == \E e \in Range(numbered_envs) : ExactMarker("\\begin", e, ls[k])

OpenedEnv(ls, k) ==
  numbered_envs[CHOOSE n \in 1..Len(numbered_envs) :
                  /\ ExactMarker("\\begin", numbered_envs[n], ls[k])
                  /\ \A m \in 1..(n - 1) :
                       ~ExactMarker("\\begin", numbered_envs[m], ls[k])]

Terminated(ls, k) ==
  /\ Opens(ls, k)
  /\ \E j \in k..Len(ls) : ExactMarker("\\end", OpenedEnv(ls, k), ls[j])

Unterminated(ls, k) == Opens(ls, k) /\ ~Terminated(ls, k)

\* The blocks as find_unreferenced_equations returns them.
Pairs(eqs) == [k \in 1..Len(eqs) |-> <<eqs[k][1], eqs[k][2]>>]

\* The label of the first line from..to that declares one, None without.
RECURSIVE FirstLabelInSpan(_, _, _)
FirstLabelInSpan(ls, from, to) ==
  IF from > to THEN None
  ELSE IF SearchLabel(ls[from], 1) # None THEN SearchLabel(ls[from], 1)
  ELSE FirstLabelInSpan(ls, from + 1, to)

\* The input was refused, or could not be read.
ErrorCase == Len(argv) # 2 \/ fs[argv[2]].kind # "text"

----------------------------------------------------------------------------
\* C1, as stated: the unreferenced labels are the declared labels that no
\* reference command names, names compared as written, whitespace kept.
C1_VerbatimNames ==
  pc = "equations" =>
    Range(unreferenced_labels) =
      {l \in extract_labels(InputText) : ~ReferenceNamesVerbatim(InputText, l)}

\* C1, amended: the unreferenced labels are the declared labels that equal
\* no comma-separated piece of a reference command's argument after the
\* piece is trimmed of whitespace; labels are taken untrimmed and case
\* counts.  They and the declared labels that are referenced are disjoint
\* and together are the declared labels.
C1_TrimmedNames ==
  pc = "equations" =>
    LET declared == extract_labels(InputText)
        referenced == {l \in declared : ReferenceNames(InputText, l)}
        unreferenced == Range(unreferenced_labels)
    IN /\ unreferenced = {l \in declared : ~ReferenceNames(InputText, l)}
       /\ unreferenced \cap referenced = {}
       /\ unreferenced \cup referenced = declared
       /\ Len(unreferenced_labels) = Cardinality(unreferenced)

\* A label is referenced only through a piece that had to be trimmed, while
\* another label stays unreferenced.
C1_Witness ==
  /\ pc = "equations"
  /\ unreferenced_labels # <<>>
  /\ \E l \in extract_labels(InputText) :
       /\ l \notin Range(unreferenced_labels)
       /\ ~ReferenceNamesVerbatim(InputText, l)

\* C2, as stated: the unreferenced equations are the blocks without a label
\* or with a label in the unreferenced-label list, and a block's label is a
\* declared label.
C2_ViaUnreferencedLabels ==
  pc = "write" =>
    /\ unreferenced_equations =
         Pairs(SelectSeq(equations,
                         LAMBDA eq : \/ eq[3] = None
                                     \/ eq[3] \in Range(unreferenced_labels)))
    /\ \A k \in 1..Len(equations) :
         equations[k][3] # None => equations[k][3] \in extract_labels(content)

\* C2, amended: the unreferenced equations are, in document order, the
\* blocks without a label or with a label that no reference command names;
\* a block without a label is always among them.
C2_NotInReferences ==
  pc = "write" =>
    /\ unreferenced_equations =
         Pairs(SelectSeq(equations,
                         LAMBDA eq : \/ eq[3] = None
                                     \/ ~ReferenceNames(content, eq[3])))
    /\ \A k \in 1..Len(equations) :
         equations[k][3] = None =>
           <<equations[k][1], equations[k][2]>> \in Range(unreferenced_equations)
    /\ \A k \in 1..Len(unreferenced_equations) :
         \A m \in 1..(k - 1) :
           unreferenced_equations[m][1] < unreferenced_equations[k][1]

\* A block is reported whose label is not a declared label, beside a block
\* left out because its label is referenced or a block without a label.
C2_Witness ==
  /\ pc = "write"
  /\ \E k \in 1..Len(equations) :
       /\ equations[k][3] # None
       /\ equations[k][3] \notin extract_labels(content)
       /\ <<equations[k][1], equations[k][2]>> \in Range(unreferenced_equations)

\* C3, as stated: a block's label is the first label declaration in its
\* span of lines, None when the span declares none.
C3_FirstLabelWins ==
  pc = "scan" =>
    \A k \in 1..Len(equations) :
      equations[k][3] =
        FirstLabelInSpan(lines, equations[k][1], BlockEnd(equations[k]))

\* C4: every block starts at a line with the exact marker \begin{env} of a
\* numbered environment and ends at a line with \end{env} of the same one;
\* no block starts at a starred \begin{env*} line.
C4_NumberedOnly ==
  pc = "scan" =>
    \A k \in 1..Len(equations) :
      LET first == equations[k][1]
          last == BlockEnd(equations[k])
      IN /\ first >= 1 /\ last <= Len(lines)
         /\ \E e \in Range(numbered_envs) :
              /\ ExactMarker("\\begin", e, lines[first])
              /\ ExactMarker("\\end", e, lines[last])
         /\ ~StarredMarker("\\begin", lines[first])

\* The scan is over a document with a starred span that holds a label, and
\* no block starts there.
C4_Witness ==
  /\ pc = "scan"
  /\ i >= Len(lines)
  /\ \E a \in 1..Len(lines), b \in 1..Len(lines), c \in 1..Len(lines) :
       /\ a < c /\ c < b
       /\ StarredMarker("\\begin", lines[a])
       /\ StarredMarker("\\end", lines[b])
       /\ SearchLabel(lines[c], 1) # None
       /\ \A k \in 1..Len(equations) : equations[k][1] # a

\* C5: with a wrong argument count, a missing input or an input that cannot
\* be read, main ends with exit status 1, opens no report and leaves the
\* file system as it was; otherwise main reaches the writing of the report,
\* with the warning printed exactly when the path lacks the .tex extension.
C5_Exits ==
  /\ ErrorCase =>
       /\ pc \in {"args", "exists", "extension", "labels", "exited"}
       /\ pc = "exited" => exit_status = 1 /\ output_file_path = <<>>
  /\ (pc = "exited" /\ ~ErrorCase) =>
       /\ output_file_path = with_suffix(argv[2], ".txt")
       /\ WarningMessage \in Range(stdout) <=> ~EndsWithTex(argv[2])
       /\ \/ /\ exit_status = 0
             /\ fs[output_file_path] =
                  Text(Report(unreferenced_labels, unreferenced_equations))
          \/ /\ exit_status = 1
             /\ fs[output_file_path].kind = "dir"

C5_ErrorsExitWithoutReport ==
  /\ []C5_Exits
  /\ [][ErrorCase => fs' = fs]_vars

\* An input that cannot be decoded or opened has ended main with status 1.
C5_Witness ==
  /\ pc = "exited"
  /\ exit_status = 1
  /\ Len(argv) = 2
  /\ fs[argv[2]].kind \in {"binary", "dir"}
  /\ ErrorMessage \in Range(stdout)

\* C6, as stated: the two lists of a report come from the same snapshot of
\* the file: the unreferenced labels are those of the text the equations
\* were taken from.
C6_OneSnapshot ==
  pc = "write" => unreferenced_labels = find_unreferenced_labels(content)

\* C7: the recorded blocks lie within the document, do not overlap, are in
\* document order, and end before the line the scan is at.
C7_Disjoint ==
  pc = "scan" =>
    /\ \A k \in 1..Len(equations) :
         /\ 1 <= equations[k][1]
         /\ equations[k][1] <= BlockEnd(equations[k])
         /\ BlockEnd(equations[k]) <= i
    /\ i <= Len(lines)
    /\ \A k \in 1..Len(equations) :
         \A m \in (k + 1)..Len(equations) :
           BlockEnd(equations[k]) < equations[m][1]

\* Two blocks are recorded, the first of more than one line.
C7_Witness ==
  /\ pc = "scan"
  /\ Len(equations) >= 2
  /\ equations[1][1] < BlockEnd(equations[1])

\* C8: of the lines scanned so far that no earlier block consumed, exactly
\* those that open an environment closed at or after them start a block:
\* an unterminated begin marker starts none, stops nothing and raises
\* nothing.
C8_UnterminatedDropped ==
  pc = "scan" =>
    /\ exit_status = -1
    /\ \A k \in 1..i :
         \/ \E b \in 1..Len(equations) :
              equations[b][1] < k /\ k <= BlockEnd(equations[b])
         \/ (\E b \in 1..Len(equations) : equations[b][1] = k)
              <=> Terminated(lines, k)

\* After an unterminated begin marker a complete environment is recorded.
C8_Witness ==
  /\ pc = "scan"
  /\ i >= Len(lines)
  /\ \E k \in 1..Len(lines) :
       /\ Unterminated(lines, k)
       /\ \E b \in 1..Len(equations) : equations[b][1] > k

\* C9: every iteration of the outer loop moves the line index forward,
\* within the document, and the scan comes to its end.
C9_ScanTerminates ==
  /\ [][(pc = "scan" /\ pc' = "scan") => (i < i' /\ i' <= Len(lines))]_vars
  /\ (pc = "scan") ~> (pc = "write")

\* The scan is over a document with an unterminated begin marker and a
\* begin marker inside a recorded block.
C9_Witness ==
  /\ pc = "write"
  /\ \E k \in 1..Len(lines) : Unterminated(lines, k)
  /\ \E k \in 1..Len(lines) :
       /\ Opens(lines, k)
       /\ \E b \in 1..Len(equations) :
            equations[b][1] < k /\ k <= BlockEnd(equations[b])

\* C10, as stated: the report path differs from the input path and a
\* successful run leaves the input file as it was read.
C10_InputUntouched ==
  (pc = "exited" /\ exit_status = 0) =>
    /\ output_file_path # tex_file_path
    /\ fs[tex_file_path] = Text(content)
====
